---- MODULE Spec2Model ----
(***************************************************************************)
(* Process scheduling simulator (process-scheduling-algorithms/main.cc):   *)
(* ParseFile, main, and the three schedulers FCFS, SJF and RR, modelled as *)
(* a state machine.  One loop iteration of a scheduler is one action; the  *)
(* RR iteration is split at its three phases (dispatch, arrival sweep and  *)
(* re-queue, empty-queue recovery) so that the queue between the phases is *)
(* visible.                                                                *)
(***************************************************************************)
EXTENDS Integers, Sequences, FiniteSets, TLC

\* ---------------------------------------------------------------- bounds
\* Process lists of up to MaxLen processes, arrival times 0..MaxArrival, and two
\* burst times, a short and a long job (the README's list is always among them).
MaxLen == 3
MaxArrival == 2
ShortBurst == 1
LongBurst == 5
\* The second run of an engine multiplies every burst time by 1..MaxFactor.
MaxFactor == 2
\* Input files of up to MaxLines lines of up to MaxTokens tokens.
MaxLines == 2
MaxTokens == 3
\* The width of int, in bits: the clock and the times are ints.  (The README's
\* list needs 7 bits; the program's int has 32, and behaves alike at its ends.)
IntBits == 8

\* ------------------------------------------------------ program constants
\* std::numeric_limits<int>::max(), the initial bt_threshold of SJF, and
\* std::numeric_limits<int>::min().
IntMax == 2 ^ (IntBits - 1) - 1
IntMin == 0 - IntMax - 1
\* main: new ps::RRScheduler{processes, 2}
MainQuantum == 2

VARIABLES
  file,                 \* ParseFile: the lines of the input file, each a sequence of tokens
  line_no,              \* ParseFile: number of lines consumed by the outer getline loop
  at,                   \* ParseFile: local int at (declared outside the line loop)
  bt,                   \* ParseFile: local int bt (declared outside the line loop)
  bad_lines,            \* ParseFile: number of "Bad formatted input" reports written
  input,                \* the process list handed to the scheduler constructors
  sched,                \* main: position in the schedulers vector (0: a scheduler run on its own)
  engine,               \* which Scheduler subclass is running
  quantum_,             \* RRScheduler::quantum_
  processes_,           \* Scheduler::processes_
  pc,                   \* control position
  i,                    \* FCFS: loop index (number of processes already handled)
  time_passed,          \* SJF, RR: the simulated clock
  finished_count,       \* SJF, RR
  metrics,              \* running sums, then (after Return) still the sums; see averages
  ready_indexes_queue,  \* RR
  curr_index,           \* RR: index dequeued in the current iteration (0: none)
  slices,               \* history: the CPU slices dispatched so far, in order
  averages,             \* the ProcessAverageMetrics returned by Start()
  run,                  \* harness: 1 for the first run of the engine, 2 for the second
  factor,               \* harness: every burst time of run 2 is that of run 1 times factor
  first                 \* harness: what run 1 produced

vars == <<file, line_no, at, bt, bad_lines, input, sched, engine, quantum_, processes_,
          pc, i, time_passed, finished_count, metrics, ready_indexes_queue, curr_index,
          slices, averages, run, factor, first>>

parseVars == <<file, line_no, at, bt, bad_lines>>
harnessVars == <<run, factor, first>>

Engines == {"FCFS", "SJF", "RR"}

Max(a, b) == IF a >= b THEN a ELSE b

\* ------------------------------------------------------------ Process
\* struct Process as ParseFile builds it: {.at = at, .bt = bt, .rbt = bt}, every
\* other member value-initialised.  id is the record's position in the input
\* list (not a member of the struct; it names the process across copies and sorts).
NewProcess(id, a, b) ==
  [id |-> id, at |-> a, bt |-> b, st |-> 0, ct |-> 0, tt |-> 0, rt |-> 0, wt |-> 0,
   rbt |-> b, queued |-> FALSE, finished |-> FALSE]

ZeroMetrics == [tt |-> 0, rt |-> 0, wt |-> 0]

\* The input file of the README.
ReadmeInput ==
  << NewProcess(1, 0, 20), NewProcess(2, 0, 10), NewProcess(3, 4, 6), NewProcess(4, 4, 8) >>

\* ------------------------------------------------------------ helpers
Perms(n) == { p \in [1..n -> 1..n] : \A a, b \in 1..n : a # b => p[a] # p[b] }

\* Scheduler::SortArrivalTimeAsceding: std::sort with the comparer lhs.at < rhs.at.
\* std::sort leaves the relative order of equivalent elements unspecified, so every
\* arrangement that is ascending by arrival time is a possible result.
SortArrivalTimeAsceding(ps) ==
  { [k \in 1..Len(ps) |-> ps[p[k]]] :
      p \in { q \in Perms(Len(ps)) :
                \A a, b \in 1..Len(ps) : a < b => ~(ps[q[b]].at < ps[q[a]].at) } }

\* tt, rt and wt of a process whose st and ct are set.
DeriveMetricsWaitFromStart(p) ==
  LET tt == p.ct - p.at
      rt == p.st - p.at
      wt == p.st - p.at
  IN [p EXCEPT !.tt = tt, !.rt = rt, !.wt = wt]

DeriveMetricsWaitFromResponse(p) ==
  LET tt == p.ct - p.at
      rt == p.st - p.at
      wt == rt - p.bt
  IN [p EXCEPT !.tt = tt, !.rt = rt, !.wt = wt]

DeriveMetrics(p) ==
  LET tt == p.ct - p.at
      rt == p.st - p.at
      wt == tt - p.bt
  IN [p EXCEPT !.tt = tt, !.rt = rt, !.wt = wt]

\* metrics.tt += p.tt; metrics.rt += p.rt; metrics.wt += p.wt
Accumulate(m, p) == [tt |-> m.tt + p.tt, rt |-> m.rt + p.rt, wt |-> m.wt + p.wt]

\* metrics.x /= processes_count_: the quotient, kept as numerator and denominator.
Average(m, n) ==
  [tt |-> <<m.tt, n>>, rt |-> <<m.rt, n>>, wt |-> <<m.wt, n>>]

NoAverages == [tt |-> <<0, 0>>, rt |-> <<0, 0>>, wt |-> <<0, 0>>]

processes_count_ == Len(processes_)

\* (In the actions, \E x \in {e} : ... names the value of e: it is computed once.)

\* ------------------------------------------------------------ FCFS
FCFSStartTimeAfterPrevious(ps, k) == IF k = 1 THEN ps[k].at ELSE ps[k - 1].ct

FCFSStartTime(ps, k) == IF k = 1 THEN ps[k].at ELSE Max(ps[k].at, ps[k - 1].ct)

FCFSRunProcess(ps, k) ==
  LET st == FCFSStartTime(ps, k)
      p1 == [ps[k] EXCEPT !.st = st, !.ct = st + ps[k].bt]
  IN DeriveMetrics(p1)

FCFSSort ==
  /\ pc = "start" /\ engine = "FCFS"
  /\ processes_' \in SortArrivalTimeAsceding(processes_)
  /\ pc' = "loop"
  /\ UNCHANGED <<parseVars, harnessVars, input, sched, engine, quantum_, i, time_passed,
                 finished_count, metrics, ready_indexes_queue, curr_index, slices, averages>>

FCFSStep ==
  /\ pc = "loop" /\ engine = "FCFS"
  /\ i < processes_count_
  /\ \E k \in {i + 1} :
     \E p \in {FCFSRunProcess(processes_, k)} :
        /\ processes_' = [processes_ EXCEPT ![k] = p]
        /\ metrics' = Accumulate(metrics, p)
        /\ slices' = Append(slices, [idx |-> k, id |-> p.id, from |-> p.st, to |-> p.ct])
  /\ i' = i + 1
  /\ UNCHANGED <<parseVars, harnessVars, input, sched, engine, quantum_, pc, time_passed,
                 finished_count, ready_indexes_queue, curr_index, averages>>

\* ------------------------------------------------------------ SJF
RECURSIVE SJFScanIgnoringArrival(_, _, _, _, _)
SJFScanIgnoringArrival(ps, t, k, thr, sel) ==
  IF k > Len(ps) THEN sel
  ELSE IF ps[k].finished THEN SJFScanIgnoringArrival(ps, t, k + 1, thr, sel)
  ELSE LET found == IF ps[k].bt = thr /\ sel # 0
                    THEN ps[k].at < ps[sel].at
                    ELSE ps[k].bt < thr
       IN IF found THEN SJFScanIgnoringArrival(ps, t, k + 1, ps[k].bt, k)
                   ELSE SJFScanIgnoringArrival(ps, t, k + 1, thr, sel)

RECURSIVE SJFScanFirstShortest(_, _, _, _, _)
SJFScanFirstShortest(ps, t, k, thr, sel) ==
  IF k > Len(ps) THEN sel
  ELSE IF ps[k].finished \/ ps[k].at > t THEN SJFScanFirstShortest(ps, t, k + 1, thr, sel)
  ELSE IF ps[k].bt < thr THEN SJFScanFirstShortest(ps, t, k + 1, ps[k].bt, k)
                         ELSE SJFScanFirstShortest(ps, t, k + 1, thr, sel)

\* The for loop of SJFScheduler::Start over processes_[k..]: thr is bt_threshold,
\* sel the index pProcess points at (0: null).
RECURSIVE SJFScan(_, _, _, _, _)
SJFScan(ps, t, k, thr, sel) ==
  IF k > Len(ps) THEN sel
  ELSE IF ps[k].finished \/ ps[k].at > t THEN SJFScan(ps, t, k + 1, thr, sel)
  ELSE LET found == IF ps[k].bt = thr /\ sel # 0
                    THEN ps[k].at < ps[sel].at
                    ELSE ps[k].bt < thr
       IN IF found THEN SJFScan(ps, t, k + 1, ps[k].bt, k)
                   ELSE SJFScan(ps, t, k + 1, thr, sel)

SJFSelect(ps, t) == SJFScan(ps, t, 1, IntMax, 0)

SJFRunProcess(p, t) ==
  DeriveMetrics([p EXCEPT !.st = t, !.ct = t + p.bt])

\* if (!pProcess) { time_passed++; continue; }  Incrementing an int that holds
\* IntMax is undefined behaviour: the build either wraps it to IntMin or the run is
\* lost (pc = "ub").
SJFIdle ==
  /\ pc = "start" /\ engine = "SJF"
  /\ finished_count < processes_count_
  /\ SJFSelect(processes_, time_passed) = 0
  /\ IF time_passed < IntMax
     THEN time_passed' = time_passed + 1 /\ pc' = pc
     ELSE \/ time_passed' = IntMin /\ pc' = pc
          \/ time_passed' = time_passed /\ pc' = "ub"
  /\ UNCHANGED <<parseVars, harnessVars, input, sched, engine, quantum_, processes_, i,
                 finished_count, metrics, ready_indexes_queue, curr_index, slices, averages>>

SJFDispatch ==
  /\ pc = "start" /\ engine = "SJF"
  /\ finished_count < processes_count_
  /\ \E k \in {SJFSelect(processes_, time_passed)} \ {0} :
     \E p \in {SJFRunProcess(processes_[k], time_passed)} :
        /\ processes_' = [processes_ EXCEPT ![k] = [p EXCEPT !.finished = TRUE]]
        /\ time_passed' = p.ct
        /\ metrics' = Accumulate(metrics, p)
        /\ slices' = Append(slices, [idx |-> k, id |-> p.id, from |-> p.st, to |-> p.ct])
  /\ finished_count' = finished_count + 1
  /\ UNCHANGED <<parseVars, harnessVars, input, sched, engine, quantum_, pc, i,
                 ready_indexes_queue, curr_index, averages>>

\* ------------------------------------------------------------ RR
\* if (curr.rbt == curr.bt) { curr.st = max(time_passed, curr.at); time_passed = curr.st; }
RRFirstDispatchEveryTime(p, t) == [p EXCEPT !.st = Max(t, p.at)]

RRFirstDispatch(p, t) ==
  IF p.rbt = p.bt THEN [p EXCEPT !.st = Max(t, p.at)] ELSE p

RRClockAtDispatch(p, t) ==
  IF p.rbt = p.bt THEN Max(t, p.at) ELSE t

\* The slice of one dispatch: <<the process afterwards, the clock afterwards>>.
RRRunSliceFullQuantum(p, t, q) ==
  IF p.rbt - q > 0
  THEN << [p EXCEPT !.rbt = p.rbt - q], t + q >>
  ELSE LET done == DeriveMetrics([p EXCEPT !.ct = t + q])
       IN << [done EXCEPT !.rbt = 0, !.finished = TRUE], t + q >>

RRRunSliceKeepsRemaining(p, t, q) ==
  IF p.rbt - q > 0
  THEN << [p EXCEPT !.rbt = p.rbt - q], t + q >>
  ELSE LET done == DeriveMetrics([p EXCEPT !.ct = t + p.rbt])
       IN << [done EXCEPT !.finished = TRUE], t + p.rbt >>

RRRunSlice(p, t, q) ==
  IF p.rbt - q > 0
  THEN << [p EXCEPT !.rbt = p.rbt - q], t + q >>
  ELSE LET done == DeriveMetrics([p EXCEPT !.ct = t + p.rbt])
       IN << [done EXCEPT !.rbt = 0, !.finished = TRUE], t + p.rbt >>

RECURSIVE RRArrivalSweepIgnoringArrival(_, _, _, _)
RRArrivalSweepIgnoringArrival(ps, q, t, k) ==
  IF k > Len(ps) THEN <<ps, q>>
  ELSE IF ps[k].queued \/ ps[k].finished THEN RRArrivalSweepIgnoringArrival(ps, q, t, k + 1)
  ELSE RRArrivalSweepIgnoringArrival([ps EXCEPT ![k].queued = TRUE], Append(q, k), t, k + 1)

\* The arrival sweep from list index k on (the code starts it at begin() + 1):
\* <<processes_, ready_indexes_queue>> afterwards.
RECURSIVE RRArrivalSweep(_, _, _, _)
RRArrivalSweep(ps, q, t, k) ==
  IF k > Len(ps) THEN <<ps, q>>
  ELSE IF ps[k].queued \/ ps[k].finished THEN RRArrivalSweep(ps, q, t, k + 1)
  ELSE IF ps[k].at <= t
       THEN RRArrivalSweep([ps EXCEPT ![k].queued = TRUE], Append(q, k), t, k + 1)
       ELSE RRArrivalSweep(ps, q, t, k + 1)

RRRequeueNever(ps, q, c) == q

RRRequeueAtFront(ps, q, c) == IF ~ps[c].finished THEN <<c>> \o q ELSE q

\* if (!curr.finished) ready_indexes_queue.push(curr_index);
RRRequeue(ps, q, c) == IF ~ps[c].finished THEN Append(q, c) ELSE q

\* Lines 203-218: the arrival sweep at clock t, then the re-queue of the current
\* process c: <<processes_, ready_indexes_queue>> afterwards.
RRAfterSliceRequeueFirst(ps, q, t, c) ==
  RRArrivalSweep(ps, RRRequeue(ps, q, c), t, 2)

RRAfterSlice(ps, q, t, c) ==
  LET s == RRArrivalSweep(ps, q, t, 2)
  IN << s[1], RRRequeue(s[1], s[2], c) >>

\* The recovery scan from list index k on (the code starts it at begin() + 1):
\* the first process that is not finished is queued, and the scan stops.
RRRecoveryScanNothing(ps, q, k) == <<ps, q>>

RECURSIVE RRRecoveryScanNoFlag(_, _, _)
RRRecoveryScanNoFlag(ps, q, k) ==
  IF k > Len(ps) THEN <<ps, q>>
  ELSE IF ps[k].finished THEN RRRecoveryScanNoFlag(ps, q, k + 1)
  ELSE << ps, Append(q, k) >>

RECURSIVE RRRecoveryScanNoBreak(_, _, _)
RRRecoveryScanNoBreak(ps, q, k) ==
  IF k > Len(ps) THEN <<ps, q>>
  ELSE IF ps[k].finished THEN RRRecoveryScanNoBreak(ps, q, k + 1)
  ELSE RRRecoveryScanNoBreak([ps EXCEPT ![k].queued = TRUE], Append(q, k), k + 1)

RECURSIVE RRRecoveryScan(_, _, _)
RRRecoveryScan(ps, q, k) ==
  IF k > Len(ps) THEN <<ps, q>>
  ELSE IF ps[k].finished THEN RRRecoveryScan(ps, q, k + 1)
  ELSE << [ps EXCEPT ![k].queued = TRUE], Append(q, k) >>

\* Lines 160-168: the sort, the locals, and the queue seeded with index 0 (here 1).
RRInit ==
  /\ pc = "start" /\ engine = "RR"
  /\ processes_' \in SortArrivalTimeAsceding(processes_)
  /\ ready_indexes_queue' = <<1>>
  /\ pc' = "loop"
  /\ UNCHANGED <<parseVars, harnessVars, input, sched, engine, quantum_, i, time_passed,
                 finished_count, metrics, curr_index, slices, averages>>

\* Lines 171-220: one iteration of the loop up to the test of the empty queue: the
\* dequeue, the first-dispatch adjustment, the slice, the arrival sweep and the
\* re-queue of the current process.  front() and pop() on an empty queue are
\* undefined behaviour: the run is then lost (pc = "ub").
RRStep ==
  /\ pc = "loop" /\ engine = "RR"
  /\ finished_count < processes_count_
  /\ IF ready_indexes_queue = <<>>
     THEN /\ pc' = "ub"
          /\ UNCHANGED <<processes_, time_passed, finished_count, metrics,
                         ready_indexes_queue, curr_index, slices>>
     ELSE \E c \in {Head(ready_indexes_queue)} :
          \E t0 \in {RRClockAtDispatch(processes_[c], time_passed)} :
          \E r \in {RRRunSlice(RRFirstDispatch(processes_[c], time_passed), t0, quantum_)} :
          \E s \in {RRAfterSlice([processes_ EXCEPT ![c] = r[1]],
                                 Tail(ready_indexes_queue), r[2], c)} :
             /\ curr_index' = c
             /\ time_passed' = r[2]
             /\ metrics' = IF r[1].finished THEN Accumulate(metrics, r[1]) ELSE metrics
             /\ finished_count' = IF r[1].finished THEN finished_count + 1
                                                   ELSE finished_count
             /\ slices' = Append(slices, [idx |-> c, id |-> r[1].id, from |-> t0, to |-> r[2]])
             /\ processes_' = s[1]
             /\ ready_indexes_queue' = s[2]
             /\ pc' = IF s[2] = <<>> THEN "recover" ELSE "loop"
  /\ UNCHANGED <<parseVars, harnessVars, input, sched, engine, quantum_, i, averages>>

\* Lines 220-234: the queue is empty after the sweep and the re-queue: the recovery scan.
RRRecover ==
  /\ pc = "recover" /\ engine = "RR"
  /\ \E s \in {RRRecoveryScan(processes_, ready_indexes_queue, 2)} :
        /\ processes_' = s[1]
        /\ ready_indexes_queue' = s[2]
  /\ pc' = "loop"
  /\ UNCHANGED <<parseVars, harnessVars, input, sched, engine, quantum_, i, time_passed,
                 finished_count, metrics, curr_index, slices, averages>>

\* ------------------------------------------------------------ return
\* The loop of Start() is over: the sums are divided by processes_count_ and returned.
LoopOver ==
  \/ engine = "FCFS" /\ pc = "loop" /\ ~(i < processes_count_)
  \/ engine = "SJF" /\ pc = "start" /\ ~(finished_count < processes_count_)
  \/ engine = "RR" /\ pc = "loop" /\ ~(finished_count < processes_count_)

Return ==
  /\ LoopOver
  /\ averages' = Average(metrics, processes_count_)
  /\ pc' = "done"
  /\ UNCHANGED <<parseVars, harnessVars, input, sched, engine, quantum_, processes_, i,
                 time_passed, finished_count, metrics, ready_indexes_queue, curr_index, slices>>

EngineNext ==
  \/ FCFSSort \/ FCFSStep
  \/ SJFIdle \/ SJFDispatch
  \/ RRInit \/ RRStep \/ RRRecover
  \/ Return

\* ------------------------------------------------------------ one run of one engine
Arrivals == 0..MaxArrival
Bursts == {ShortBurst, LongBurst}

WithIds(ps) == [k \in 1..Len(ps) |-> [ps[k] EXCEPT !.id = k]]

Inputs ==
  { WithIds(ps) :
      ps \in UNION { [1..n -> { NewProcess(0, a, b) : a \in Arrivals, b \in Bursts }] :
                     n \in 1..MaxLen } }
  \cup {ReadmeInput}

\* Scheduler(processes) (and RRScheduler's quantum_): the scheduler's own copy of the
\* list, and the locals of Start() as they are declared.
Construct(ps, e) ==
  /\ engine' = e
  /\ quantum_' = IF e = "RR" THEN MainQuantum ELSE 0
  /\ processes_' = ps
  /\ pc' = "start"
  /\ i' = 0
  /\ time_passed' = 0
  /\ finished_count' = 0
  /\ metrics' = ZeroMetrics
  /\ ready_indexes_queue' = <<>>
  /\ curr_index' = 0
  /\ slices' = <<>>
  /\ averages' = NoAverages

Constructed(ps, e) ==
  /\ engine = e
  /\ quantum_ = IF e = "RR" THEN MainQuantum ELSE 0
  /\ processes_ = ps
  /\ pc = "start"
  /\ i = 0
  /\ time_passed = 0
  /\ finished_count = 0
  /\ metrics = ZeroMetrics
  /\ ready_indexes_queue = <<>>
  /\ curr_index = 0
  /\ slices = <<>>
  /\ averages = NoAverages

NoParse ==
  /\ file = <<>> /\ line_no = 0 /\ at = 0 /\ bt = 0 /\ bad_lines = 0

NoFirst == [processes |-> <<>>, metrics |-> ZeroMetrics, slices |-> <<>>]

Init ==
  /\ NoParse
  /\ sched = 0
  /\ run = 1 /\ factor = 1 /\ first = NoFirst
  /\ \E ps \in Inputs, e \in Engines : input = ps /\ Constructed(ps, e)

Next == EngineNext

Spec == Init /\ [][Next]_vars

\* The same, every step taken eventually: the program runs until Start() returns.
SpecFair == Init /\ [][Next]_vars /\ WF_vars(Next)

\* ------------------------------------------------------------ two runs of one engine
\* The list of run 2: a fresh copy of the input, every burst time multiplied by k.
Scaled(ps, k) == [n \in 1..Len(ps) |-> NewProcess(ps[n].id, ps[n].at, ps[n].bt * k)]

\* Run 1 has returned: its outcome is kept and the same engine is constructed again
\* on a fresh copy of the (scaled) input.
Rerun ==
  /\ pc = "done" /\ run = 1
  /\ first' = [processes |-> processes_, metrics |-> metrics, slices |-> slices]
  /\ run' = 2
  /\ Construct(Scaled(input, factor), engine)
  /\ UNCHANGED <<parseVars, input, sched, factor>>

\* The engines run twice: FCFS, which sorts, and SJF, which does not.
TwiceEngines == {"FCFS", "SJF"}

InitTwice ==
  /\ NoParse
  /\ sched = 0
  /\ run = 1 /\ factor \in 1..MaxFactor /\ first = NoFirst
  /\ \E ps \in Inputs, e \in TwiceEngines : input = ps /\ Constructed(ps, e)

NextTwice == FCFSSort \/ FCFSStep \/ SJFIdle \/ SJFDispatch \/ Return \/ Rerun

SpecTwice == InitTwice /\ [][NextTwice]_vars

\* ------------------------------------------------------------ SJF over the int range
\* SJF on lists whose burst times include std::numeric_limits<int>::max().
WideBursts == {ShortBurst, IntMax}

WideInputs ==
  { WithIds(ps) :
      ps \in UNION { [1..n -> { NewProcess(0, a, b) : a \in Arrivals, b \in WideBursts }] :
                     n \in 1..MaxLen } }

InitWide ==
  /\ NoParse
  /\ sched = 0
  /\ run = 1 /\ factor = 1 /\ first = NoFirst
  /\ \E ps \in WideInputs : input = ps /\ Constructed(ps, "SJF")

NextWide == SJFIdle \/ SJFDispatch \/ Return

SpecWide == InitWide /\ [][NextWide]_vars

SpecWideFair == InitWide /\ [][NextWide]_vars /\ WF_vars(NextWide)

\* ------------------------------------------------------------ ParseFile
\* A token is what std::getline(line_stream, token, ' ') yields: a string, here a
\* sequence of characters.  A line is its sequence of tokens; the last token of a
\* line is never empty (getline yields nothing after a trailing delimiter).
DigitValue(c) ==
  CASE c = "0" -> 0 [] c = "1" -> 1 [] c = "2" -> 2 [] c = "3" -> 3 [] c = "4" -> 4
    [] c = "5" -> 5 [] c = "6" -> 6 [] c = "7" -> 7 [] c = "8" -> 8 [] c = "9" -> 9

IsDigit(c) == c \in {"0", "1", "2", "3", "4", "5", "6", "7", "8", "9"}

\* The value of the longest prefix of digits of cs, continuing from acc, and
\* whether a digit was read: <<value, read>>.
RECURSIVE ScanDigits(_, _, _)
ScanDigits(cs, acc, read) ==
  IF cs = <<>> \/ ~IsDigit(Head(cs)) THEN <<acc, read>>
  ELSE ScanDigits(Tail(cs), acc * 10 + DigitValue(Head(cs)), TRUE)

\* token_stream >> v for std::stringstream token_stream{token}: an empty token
\* fails before anything is stored (v keeps its old value); a token with no digit
\* after the optional sign fails and stores 0; otherwise the leading integer is
\* stored and what follows it is left unread.
ExtractInt(token, old) ==
  IF token = <<>> THEN [val |-> old, fail |-> TRUE]
  ELSE LET signed == Head(token) \in {"-", "+"}
           d == ScanDigits(IF signed THEN Tail(token) ELSE token, 0, FALSE)
       IN IF ~d[2] THEN [val |-> 0, fail |-> TRUE]
          ELSE [val |-> IF Head(token) = "-" THEN 0 - d[1] ELSE d[1], fail |-> FALSE]

\* The inner loop of ParseFile over the tokens of one line from token_index k - 1
\* on: the locals afterwards.
RECURSIVE ParseTokens(_, _, _)
ParseTokens(line, k, loc) ==
  IF k > Len(line) THEN loc
  ELSE LET x == ExtractInt(line[k], IF k = 1 THEN loc.at ELSE loc.bt)
           touched == k <= 2
           bad == k > 2 \/ (touched /\ x.fail)
       IN ParseTokens(line, k + 1,
            [at |-> IF k = 1 THEN x.val ELSE loc.at,
             bt |-> IF k = 2 THEN x.val ELSE loc.bt,
             bad |-> IF bad THEN loc.bad + 1 ELSE loc.bad])

\* One iteration of the outer loop: the tokens of the line, then
\* result.push_back({.at = at, .bt = bt, .rbt = bt}).
ParseLine ==
  /\ pc = "parse"
  /\ line_no < Len(file)
  /\ LET loc == ParseTokens(file[line_no + 1], 1, [at |-> at, bt |-> bt, bad |-> bad_lines])
     IN /\ at' = loc.at
        /\ bt' = loc.bt
        /\ bad_lines' = loc.bad
        /\ input' = Append(input, NewProcess(Len(input) + 1, loc.at, loc.bt))
  /\ line_no' = line_no + 1
  /\ UNCHANGED <<file, harnessVars, sched, engine, quantum_, processes_, pc, i, time_passed,
                 finished_count, metrics, ready_indexes_queue, curr_index, slices, averages>>

\* ------------------------------------------------------------ main
SchedulerAt(n) == CASE n = 1 -> "FCFS" [] n = 2 -> "SJF" [] n = 3 -> "RR"

\* ParseFile has returned (lines 276-287): an empty list ends the program, any
\* other is copied into the three schedulers, and the first one is started.
MainSchedule ==
  /\ pc = "parse"
  /\ line_no = Len(file)
  /\ IF input = <<>>
     THEN /\ pc' = "exit"
          /\ UNCHANGED <<sched, engine, quantum_, processes_, i, time_passed, finished_count,
                         metrics, ready_indexes_queue, curr_index, slices, averages>>
     ELSE /\ sched' = 1
          /\ Construct(input, SchedulerAt(1))
  /\ UNCHANGED <<parseVars, harnessVars, input>>

\* Lines 289-299: the metrics are printed, the scheduler is deleted, and the next
\* one is started on its own copy of the list.
MainNextScheduler ==
  /\ pc = "done"
  /\ sched \in 1..3
  /\ IF sched < 3
     THEN /\ sched' = sched + 1
          /\ Construct(input, SchedulerAt(sched + 1))
     ELSE /\ pc' = "exit"
          /\ UNCHANGED <<sched, engine, quantum_, processes_, i, time_passed, finished_count,
                         metrics, ready_indexes_queue, curr_index, slices, averages>>
  /\ UNCHANGED <<parseVars, harnessVars, input>>

Tokens == { <<>>, <<"0">>, <<"2">>, <<"-", "1">>, <<"x">> }

Lines ==
  { l \in UNION { [1..n -> Tokens] : n \in 0..MaxTokens } : l = <<>> \/ l[Len(l)] # <<>> }

Files == UNION { [1..n -> Lines] : n \in 0..MaxLines }

InitMain ==
  /\ file \in Files
  /\ line_no = 0 /\ at = 0 /\ bt = 0 /\ bad_lines = 0
  /\ input = <<>>
  /\ sched = 0
  /\ run = 1 /\ factor = 1 /\ first = NoFirst
  /\ engine = "none" /\ quantum_ = 0 /\ processes_ = <<>>
  /\ pc = "parse"
  /\ i = 0 /\ time_passed = 0 /\ finished_count = 0 /\ metrics = ZeroMetrics
  /\ ready_indexes_queue = <<>> /\ curr_index = 0 /\ slices = <<>>
  /\ averages = NoAverages

NextMain == ParseLine \/ MainSchedule \/ MainNextScheduler \/ EngineNext

SpecMain == InitMain /\ [][NextMain]_vars

\* ==================================================================== claims
RECURSIVE SumOver(_, _)
SumOver(f, S) ==
  IF S = {} THEN 0 ELSE LET x == CHOOSE y \in S : TRUE IN f[x] + SumOver(f, S \ {x})

\* The list positions of the processes the running engine has finished: FCFS
\* keeps no flag, it has finished the first i processes.
FinishedSet ==
  IF engine = "FCFS" THEN 1..i
  ELSE { k \in 1..Len(processes_) : processes_[k].finished }

MetricsHold(p) ==
  /\ p.tt = p.ct - p.at
  /\ p.rt = p.st - p.at
  /\ p.wt = p.tt - p.bt

\* The total length of the slices process id has been dispatched for.
SliceTime(id) ==
  SumOver([k \in 1..Len(slices) |-> slices[k].to - slices[k].from],
          { k \in 1..Len(slices) : slices[k].id = id })

\* C1: in every engine, every finished process has turnaround_time =
\* completion_time - arrival_time, response_time = start_time - arrival_time and
\* wait_time = turnaround_time - burst_time, and each running sum is the sum of
\* that metric over the finished processes (each was added once, as it is).
C1_MetricsDerived ==
  /\ \A k \in FinishedSet : MetricsHold(processes_[k])
  /\ metrics.tt = SumOver([k \in 1..Len(processes_) |-> processes_[k].tt], FinishedSet)
  /\ metrics.rt = SumOver([k \in 1..Len(processes_) |-> processes_[k].rt], FinishedSet)
  /\ metrics.wt = SumOver([k \in 1..Len(processes_) |-> processes_[k].wt], FinishedSet)

\* A preempted RR process is finished: it waited longer than its response time.
C1_Witness ==
  /\ engine = "RR"
  /\ \E k \in FinishedSet :
       /\ processes_[k].rt > 0
       /\ processes_[k].wt > processes_[k].rt
  /\ \E k \in FinishedSet : processes_[k].tt > processes_[k].bt /\ metrics.tt > processes_[k].tt

\* C2: for every finished process with burst_time > 0: under FCFS and SJF
\* completion_time - start_time = burst_time; under RR the slices it was dispatched
\* for add up to burst_time and completion_time - start_time >= burst_time; so
\* completion_time > start_time in all three engines.
C2_BurstIsRun ==
  \A k \in FinishedSet :
    LET p == processes_[k] IN
    p.bt > 0 =>
      /\ engine \in {"FCFS", "SJF"} => p.ct - p.st = p.bt
      /\ engine = "RR" => SliceTime(p.id) = p.bt /\ p.ct - p.st >= p.bt
      /\ SliceTime(p.id) = p.bt
      /\ p.ct > p.st

\* An RR process that was preempted and waited between its slices is finished.
C2_Witness ==
  /\ engine = "RR"
  /\ \E k \in FinishedSet :
       /\ processes_[k].ct - processes_[k].st > processes_[k].bt
       /\ Cardinality({ n \in 1..Len(slices) : slices[n].id = processes_[k].id }) >= 3

AllFinished ==
  /\ FinishedSet = 1..Len(processes_)
  /\ engine # "FCFS" => finished_count = processes_count_

ValidInput ==
  /\ Len(input) >= 1
  /\ \A k \in 1..Len(input) : input[k].at >= 0 /\ input[k].bt > 0

\* C3: on a non-empty list with every arrival_time >= 0 and every burst_time > 0
\* (RR quantum > 0), each engine eventually returns, and then every process is
\* finished (finished_count equals the number of processes).  input, engine and
\* quantum_ do not change during a run, so the precondition is read inside <>.
\* A run that ends in undefined behaviour is not held against the claim.
\* (It holds of the runs of Spec, whose burst times are small; an SJF run on a
\* burst time of IntMax goes round the int range for ever.)
C3_Terminates ==
  <>((ValidInput /\ (engine = "RR" => quantum_ > 0)) =>
       ((pc = "done" /\ AllFinished) \/ pc = "ub"))

\* An RR run over an idle gap (the recovery scan ran) has returned.
C3_Witness ==
  /\ pc = "done" /\ engine = "RR" /\ AllFinished
  /\ Len(processes_) >= 2
  /\ \E n \in 2..Len(slices) : slices[n].from > slices[n - 1].to

IsPrefix(s, t) == Len(s) <= Len(t) /\ \A k \in 1..Len(s) : s[k] = t[k]

Slice(idx, id, from, to) == [idx |-> idx, id |-> id, from |-> from, to |-> to]

\* C4 as claimed: SJF on the README list runs (0,10) over [0,10), then (0,20) over
\* [10,30), then (4,6) over [30,36), then (4,8) over [36,44).
C4_Claimed ==
  (engine = "SJF" /\ input = ReadmeInput) =>
    IsPrefix(slices, << Slice(2, 2, 0, 10), Slice(1, 1, 10, 30),
                        Slice(3, 3, 30, 36), Slice(4, 4, 36, 44) >>)

\* C4 (amended): SJF on the README list runs (0,10) over [0,10), then (4,6) over
\* [10,16), then (4,8) over [16,24), then (0,20) over [24,44): at time 10 all three
\* remaining processes have arrived and the shortest, (4,6), is dispatched.
C4_ReadmeSJFOrder ==
  (engine = "SJF" /\ input = ReadmeInput) =>
    IsPrefix(slices, << Slice(2, 2, 0, 10), Slice(3, 3, 10, 16),
                        Slice(4, 4, 16, 24), Slice(1, 1, 24, 44) >>)

C4_Witness ==
  /\ engine = "SJF" /\ input = ReadmeInput /\ pc = "done"
  /\ Len(slices) = 4 /\ time_passed = 44

Sorted == pc \in {"loop", "recover", "done", "ub"} /\ engine \in {"FCFS", "RR"}

\* C7: the arrival sort of FCFS and RR is stable: afterwards the list is ascending
\* by arrival_time and processes with equal arrival_time are in input order.
C7_StableSort ==
  Sorted =>
    \A a, b \in 1..Len(processes_) :
      a < b =>
        /\ processes_[a].at <= processes_[b].at
        /\ processes_[a].at = processes_[b].at => processes_[a].id < processes_[b].id

\* C10: RR (quantum 2) on the README list: at t = 0 only list index 0 is queued
\* although index 1 also has arrival 0; index 0 runs a full quantum over [0,2) and
\* is re-queued; index 1 is queued by the sweep at clock 2, ahead of index 0, and
\* is first dispatched at time 2.  (Indices are 1-based here.)
C10_ReadmeRRStart ==
  (engine = "RR" /\ input = ReadmeInput /\ pc # "start") =>
    /\ slices = <<>> =>
         /\ ready_indexes_queue = <<1>> /\ time_passed = 0
         /\ processes_[2].at = 0 /\ ~processes_[2].queued
    /\ Len(slices) >= 1 =>
         /\ slices[1].idx = 1 /\ slices[1].from = 0 /\ slices[1].to = 2
         /\ processes_[1].st = 0
    /\ Len(slices) = 1 =>
         /\ ready_indexes_queue = <<2, 1>> /\ time_passed = 2
         /\ processes_[2].queued /\ ~processes_[1].finished
    /\ Len(slices) >= 2 =>
         /\ slices[2].idx = 2 /\ slices[2].from = 2
         /\ processes_[2].st = 2
    /\ Len(slices) = 2 => Head(ready_indexes_queue) = 1

C10_Witness ==
  /\ engine = "RR" /\ input = ReadmeInput
  /\ Len(slices) = 2 /\ slices[2].idx = 2 /\ time_passed = 4

\* The two runs dispatched the processes in the same list order.
SameOrder ==
  /\ Len(first.processes) = Len(processes_)
  /\ \A k \in 1..Len(processes_) : first.processes[k].id = processes_[k].id

SecondRunDone == run = 2 /\ pc = "done"

SumsNotBelowFirst ==
  /\ metrics.tt >= first.metrics.tt
  /\ metrics.rt >= first.metrics.rt
  /\ metrics.wt >= first.metrics.wt

\* C6 as claimed: when every burst time is multiplied by the same factor k > 1
\* (arrival times unchanged), each of the three sums (so each average) of the run
\* on the scaled list is at least that of the run on the original list, for FCFS,
\* for SJF and for RR.  (Stated for the runs that place the processes in the same
\* list order, so that the order std::sort gives equal arrivals plays no part.)
C6_Claimed ==
  (SecondRunDone /\ factor > 1 /\ SameOrder) => SumsNotBelowFirst

\* C6 (amended): this holds for FCFS, whenever both runs place the processes in
\* the same order (always so when the arrival times are distinct).
C6_FCFSMonotone ==
  (SecondRunDone /\ factor > 1 /\ engine = "FCFS" /\ SameOrder) => SumsNotBelowFirst

\* FCFS has run a list with a waiting process twice, the second time scaled.
C6_Witness ==
  /\ SecondRunDone /\ factor > 1 /\ engine = "FCFS" /\ SameOrder
  /\ Len(processes_) >= 2
  /\ first.metrics.wt > 0
  /\ metrics.wt > first.metrics.wt

C9_ParsedBurstPositive ==
  sched >= 1 => \A k \in 1..Len(processes_) : processes_[k].bt > 0

\* The process of a list that ParseFile gave the position id.
ProcOf(ps, id) == ps[CHOOSE k \in 1..Len(ps) : ps[k].id = id]

\* The number of slices in sl process id was dispatched for.
SliceCount(sl, id) == Cardinality({ n \in 1..Len(sl) : sl[n].id = id })

\* The process is through: FCFS keeps no flag, there it is through once it has run.
Through(e, p, sl) == IF e = "FCFS" THEN SliceCount(sl, p.id) >= 1 ELSE p.finished

\* C11: in every step of a run, for every process: start_time changes only in the
\* step of its first dispatch, where it becomes the clock the slice starts at, and
\* never in a later dispatch (RR); completion_time changes only in the step that
\* completes it, where it becomes the clock the last slice ends at; finished (the
\* flag SJF and RR keep) is set in that step and once set stays set.
C11_SetOnce ==
  [][ \A id \in 1..Len(processes_) :
        LET p == ProcOf(processes_, id)
            q == ProcOf(processes_', id)
            before == SliceCount(slices, id)
            after == SliceCount(slices', id)
            last == slices'[Len(slices')]
        IN /\ before >= 1 => q.st = p.st
           /\ after = 0 => q.st = p.st
           /\ (before = 0 /\ after >= 1) => (after = 1 /\ last.id = id /\ q.st = last.from)
           /\ Through(engine, p, slices) =>
                 (Through(engine, q, slices') /\ q.ct = p.ct /\ q.finished = p.finished)
           /\ (~Through(engine, p, slices) /\ ~Through(engine, q, slices')) =>
                 (q.ct = p.ct /\ ~q.finished)
           /\ (~Through(engine, p, slices) /\ Through(engine, q, slices')) =>
                 (last.id = id /\ q.ct = last.to /\ (engine # "FCFS" => q.finished))
           /\ (engine # "FCFS" /\ p.finished) => q.finished
    ]_vars

\* An RR process was dispatched three times, the later times at a later clock than
\* its start_time, and is finished.
C11_Witness ==
  /\ engine = "RR"
  /\ \E k \in 1..Len(processes_) :
       /\ processes_[k].finished
       /\ SliceCount(slices, processes_[k].id) >= 3
       /\ \E n \in 1..Len(slices) :
            slices[n].id = processes_[k].id /\ slices[n].from > processes_[k].st + quantum_

\* The list positions of the processes SJF may choose from at clock t.
Eligible(ps, t) == { k \in 1..Len(ps) : ~ps[k].finished /\ ps[k].at <= t }

\* C12: in every SJF step that dispatches (a slice is added), the process chosen
\* was unfinished and had arrived; no eligible process had a smaller burst_time,
\* and none with the same burst_time an earlier arrival_time; the slice starts at
\* the clock, lasts burst_time, and the clock is its end, where the process is
\* finished: no other process ran in between.
C12_ShortestFirst ==
  [][ (engine = "SJF" /\ slices' # slices) =>
        LET last == slices'[Len(slices')]
            k == last.idx
            p == processes_[k]
        IN /\ slices' = Append(slices, last)
           /\ k \in Eligible(processes_, time_passed)
           /\ \A j \in Eligible(processes_, time_passed) :
                /\ p.bt <= processes_[j].bt
                /\ processes_[j].bt = p.bt => p.at <= processes_[j].at
           /\ last.from = time_passed
           /\ last.to = time_passed + p.bt
           /\ time_passed' = last.to
           /\ processes_'[k].finished /\ processes_'[k].ct = last.to
           /\ \A j \in 1..Len(processes_) \ {k} : processes_'[j] = processes_[j]
    ]_vars

\* SJF chose between two arrived processes of the same burst_time and took the
\* one later in the list, which had arrived earlier.
C12_Witness ==
  /\ engine = "SJF"
  /\ \E n \in 1..Len(slices) : \E j \in 1..Len(processes_) :
       /\ j < slices[n].idx
       /\ processes_[j].bt = processes_[slices[n].idx].bt
       /\ processes_[j].at > processes_[slices[n].idx].at
       /\ processes_[j].at <= slices[n].from
       /\ processes_[j].finished /\ processes_[j].st > slices[n].from

Min(a, b) == IF a <= b THEN a ELSE b

\* C13: in every RR step that dispatches, the slice lasts min(remaining_burst_time,
\* quantum) from the clock of the dispatch (the clock itself, but for a first
\* dispatch) and the clock is its end; if remaining_burst_time > quantum it is
\* lowered by quantum and the process stays unfinished; otherwise completion_time
\* is the new clock, remaining_burst_time is 0 and the process is finished; no
\* other process's remaining_burst_time changes.
C13_SliceLength ==
  [][ (engine = "RR" /\ slices' # slices) =>
        LET last == slices'[Len(slices')]
            c == last.idx
            p == processes_[c]
            q == processes_'[c]
        IN /\ slices' = Append(slices, last)
           /\ c = Head(ready_indexes_queue)
           /\ last.from >= time_passed
           /\ p.rbt # p.bt => last.from = time_passed
           /\ last.to - last.from = Min(p.rbt, quantum_)
           /\ time_passed' = last.to
           /\ p.rbt > quantum_ =>
                 (q.rbt = p.rbt - quantum_ /\ time_passed' = last.from + quantum_
                    /\ ~q.finished /\ q.ct = p.ct)
           /\ p.rbt <= quantum_ =>
                 (time_passed' = last.from + p.rbt /\ q.ct = time_passed'
                    /\ q.rbt = 0 /\ q.finished)
           /\ \A j \in 1..Len(processes_) \ {c} : processes_'[j].rbt = processes_[j].rbt
    ]_vars

\* An RR process ran two full quanta and a last, shorter slice, while another
\* process still had part of its burst left.
C13_Witness ==
  /\ engine = "RR"
  /\ \E k, j \in 1..Len(processes_) :
       /\ processes_[k].finished /\ processes_[k].rbt = 0
       /\ processes_[k].bt > 2 * quantum_
       /\ \E n \in 1..Len(slices) :
            slices[n].idx = k /\ slices[n].to - slices[n].from < quantum_
              /\ slices[n].to = processes_[k].ct
       /\ ~processes_[j].finished
       /\ processes_[j].rbt > 0 /\ processes_[j].rbt < processes_[j].bt

\* The elements of a set of numbers, ascending.
RECURSIVE Ascending(_)
Ascending(S) ==
  IF S = {} THEN <<>>
  ELSE LET m == CHOOSE x \in S : \A y \in S : x <= y
       IN <<m>> \o Ascending(S \ {m})

\* No slice starts before the slice dispatched before it has ended.
SlicesInTurn == \A n \in 2..Len(slices) : slices[n].from >= slices[n - 1].to

\* C14: in every RR step that preempts the current process at clock t, the queue
\* afterwards is what was left of it, then the processes the sweep lets in (those
\* past index 0 that were not queued, are not finished and have arrival_time <= t)
\* in list order, then the current process; and no slice starts before the one
\* before it ends, so a process that arrives inside a slice runs after it.
C14_ArrivalsAhead ==
  /\ [](engine = "RR" => SlicesInTurn)
  /\ [][ (engine = "RR" /\ slices' # slices) =>
          LET c == slices'[Len(slices')].idx
              t == time_passed'
              swept == { k \in 2..Len(processes_) :
                           ~processes_[k].queued /\ ~processes_'[k].finished
                             /\ processes_[k].at <= t }
              entered == { k \in 1..Len(processes_) :
                             ~processes_[k].queued /\ processes_'[k].queued }
          IN /\ entered = swept
             /\ ~processes_'[c].finished =>
                   ready_indexes_queue' =
                     Tail(ready_indexes_queue) \o Ascending(entered) \o <<c>>
      ]_vars

\* Two processes arrived inside the slice of a process that was then preempted:
\* they are queued in list order ahead of it.
C14_Witness ==
  /\ engine = "RR" /\ pc = "loop" /\ slices # <<>>
  /\ Len(ready_indexes_queue) >= 3
  /\ LET n == Len(ready_indexes_queue)
         c == ready_indexes_queue[n]
         a == ready_indexes_queue[n - 2]
         b == ready_indexes_queue[n - 1]
         last == slices[Len(slices)]
     IN /\ c = curr_index /\ last.idx = c /\ ~processes_[c].finished
        /\ a < b
        /\ processes_[a].rbt = processes_[a].bt /\ processes_[b].rbt = processes_[b].bt
        /\ processes_[a].at > last.from /\ processes_[b].at > last.from
        /\ processes_[b].at <= last.to

\* The RR step dispatches the process at list position c for the first time.
\* (With burst_time > 0 and quantum > 0 that is the dispatch with rbt = bt.)
FirstDispatchOf(c) ==
  /\ engine = "RR" /\ slices' # slices
  /\ slices'[Len(slices')].idx = c
  /\ processes_[c].rbt = processes_[c].bt

\* C15 as claimed: a first dispatch finds arrival_time > clock only for the
\* process at index 0 (here 1); every other process is first dispatched with
\* arrival_time <= clock.
C15_Claimed ==
  [][ \A c \in 2..Len(processes_) :
        FirstDispatchOf(c) => processes_[c].at <= time_passed ]_vars

\* C15 (amended): a first dispatch finds arrival_time > clock only when the CPU
\* has nothing to run: the process is alone in the queue, it is the unfinished
\* process with the lowest index, and no unfinished process has arrived.  That is
\* the process at index 0 at the start of the run, and later the process the
\* recovery scan queued; the clock then moves to its arrival_time.
C15_IdleGapOnly ==
  [][ \A c \in 1..Len(processes_) :
        (FirstDispatchOf(c) /\ processes_[c].at > time_passed) =>
          /\ ready_indexes_queue = <<c>>
          /\ \A j \in 1..Len(processes_) :
               ~processes_[j].finished => (j >= c /\ processes_[j].at > time_passed)
          /\ c > 1 => (processes_[c].queued /\ processes_[1].finished)
          /\ processes_'[c].st = processes_[c].at
          /\ slices'[Len(slices')].from = processes_[c].at
    ]_vars

\* A process past index 0 was first dispatched at its arrival_time, after the CPU had
\* been idle since the end of the slice before.
C15_Witness ==
  /\ engine = "RR"
  /\ \E n \in 2..Len(slices) :
       /\ slices[n].idx > 1
       /\ slices[n].from > slices[n - 1].to
       /\ slices[n].from = processes_[slices[n].idx].at
       /\ processes_[slices[n].idx].st = slices[n].from

Unfinished(ps) == { k \in 1..Len(ps) : ~ps[k].finished }

\* The step is the recovery scan of an RR iteration.
RecoveryStep == engine = "RR" /\ pc = "recover" /\ pc' = "loop"

\* The queue is empty after the sweep and the re-queue: no unfinished process has
\* arrived.
NoneArrived ==
  (engine = "RR" /\ pc = "recover") =>
    /\ ready_indexes_queue = <<>>
    /\ \A k \in Unfinished(processes_) : processes_[k].at > time_passed

\* C16 as claimed: whenever the queue is empty after the sweep and the re-queue,
\* every unfinished process has arrival_time > clock, and the recovery scan
\* enqueues exactly one process, the unfinished one with the lowest list index,
\* and leaves the clock alone.
C16_Claimed ==
  /\ []NoneArrived
  /\ [][ RecoveryStep =>
          /\ time_passed' = time_passed
          /\ \E k \in Unfinished(processes_) :
               /\ \A j \in Unfinished(processes_) : k <= j
               /\ ready_indexes_queue' = <<k>>
      ]_vars

\* C16 (amended): whenever the queue is empty after the sweep and the re-queue,
\* every unfinished process has arrival_time > clock; if a process is unfinished
\* the recovery scan enqueues exactly one, the unfinished one with the lowest list
\* index (none has an earlier arrival), and flags it queued; if all are finished
\* (the end of every run) it enqueues none; it changes nothing else, the clock
\* included.
C16_RecoveryScan ==
  /\ []NoneArrived
  /\ [][ RecoveryStep =>
          /\ time_passed' = time_passed
          /\ slices' = slices /\ finished_count' = finished_count /\ metrics' = metrics
          /\ Unfinished(processes_) = {} =>
                (ready_indexes_queue' = <<>> /\ processes_' = processes_)
          /\ Unfinished(processes_) # {} =>
                \E k \in Unfinished(processes_) :
                  /\ \A j \in Unfinished(processes_) :
                       k <= j /\ processes_[k].at <= processes_[j].at
                  /\ ready_indexes_queue' = <<k>>
                  /\ processes_' = [processes_ EXCEPT ![k].queued = TRUE]
      ]_vars

\* The recovery scan has just queued the first of two processes that have not
\* arrived yet.
C16_Witness ==
  /\ engine = "RR" /\ pc = "loop" /\ slices # <<>>
  /\ Len(ready_indexes_queue) = 1
  /\ LET k == Head(ready_indexes_queue)
     IN /\ k > 1 /\ processes_[k].queued /\ processes_[k].rbt = processes_[k].bt
        /\ processes_[k].at > time_passed
        /\ \E j \in Unfinished(processes_) : j > k /\ ~processes_[j].queued
        /\ \A j \in 1..(k - 1) : processes_[j].finished

\* C17: in RR the queue is not empty when the loop takes its head (front() and
\* pop() are never called on an empty queue); when the queue is empty after a
\* step and a process is unfinished, the process at index 0 is finished, so the
\* recovery scan, which starts past index 0, has an unfinished process to find;
\* and the run ends with no process left unfinished.
C17_QueueNeverStarves ==
  engine = "RR" =>
    /\ pc # "ub"
    /\ (pc = "loop" /\ finished_count < processes_count_) => ready_indexes_queue # <<>>
    /\ (pc = "recover" /\ Unfinished(processes_) # {}) =>
          /\ processes_[1].finished
          /\ RRRecoveryScan(processes_, ready_indexes_queue, 2)[2] # <<>>
    /\ finished_count = Len(processes_) - Cardinality(Unfinished(processes_))
    /\ pc = "done" => Unfinished(processes_) = {}

\* The queue is empty after a step, index 0 is finished and two processes are
\* not: the recovery scan is about to run.
C17_Witness ==
  /\ engine = "RR" /\ pc = "recover"
  /\ ready_indexes_queue = <<>>
  /\ processes_[1].finished
  /\ Cardinality(Unfinished(processes_)) >= 2

\* How often list position k is in the queue q.
TimesQueued(q, k) == Cardinality({ n \in 1..Len(q) : q[n] = k })

\* C18: in every state of an RR run between two iterations (the queue has been
\* seeded; no process is being dispatched): no index is in the queue twice, no
\* finished process is in it, every index in it is index 0 or flagged queued,
\* and every unfinished process that is index 0 or flagged queued is in it once.
C18_QueueWellFormed ==
  (engine = "RR" /\ pc \in {"loop", "recover", "done"}) =>
    \A k \in 1..Len(processes_) :
      /\ TimesQueued(ready_indexes_queue, k) <= 1
      /\ processes_[k].finished => TimesQueued(ready_indexes_queue, k) = 0
      /\ TimesQueued(ready_indexes_queue, k) = 1 => (k = 1 \/ processes_[k].queued)
      /\ (~processes_[k].finished /\ (k = 1 \/ processes_[k].queued)) =>
            TimesQueued(ready_indexes_queue, k) = 1

\* One process is finished, one that the recovery scan had queued is waiting behind
\* another, both preempted before.
C18_Witness ==
  /\ engine = "RR" /\ pc = "loop"
  /\ Len(ready_indexes_queue) >= 2
  /\ processes_[1].finished
  /\ processes_[1].ct < processes_[2].at
  /\ \A n \in 1..Len(ready_indexes_queue) :
       LET k == ready_indexes_queue[n]
       IN processes_[k].queued /\ processes_[k].rbt < processes_[k].bt

\* Every slice so far began at or after the arrival of its process, no slice
\* began before the one before it ended, every process that has run has
\* start_time >= arrival_time, and every completed one response_time >= 0 and
\* wait_time >= 0.
NotBeforeArrival ==
  /\ \A n \in 1..Len(slices) :
       /\ slices[n].from >= processes_[slices[n].idx].at
       /\ slices[n].from >= processes_[slices[n].idx].st
       /\ slices[n].to >= slices[n].from
  /\ SlicesInTurn
  /\ engine \in {"SJF", "RR"} =>
       (time_passed >= 0 /\ (slices # <<>> => time_passed >= slices[Len(slices)].to))
  /\ \A k \in 1..Len(processes_) :
       LET p == processes_[k]
       IN /\ SliceCount(slices, p.id) >= 1 => p.st >= p.at
          /\ Through(engine, p, slices) => (p.rt >= 0 /\ p.wt >= 0 /\ p.ct >= p.st)

\* C19: in FCFS, SJF and RR (arrival_time >= 0, burst_time > 0) no process runs
\* before it arrives: start_time >= arrival_time, every slice begins at a clock
\* >= arrival_time, response_time >= 0 and wait_time >= 0 at completion; and the
\* clock never decreases.
C19_NotBeforeArrival ==
  /\ []NotBeforeArrival
  /\ [][time_passed' >= time_passed]_vars

\* FCFS started a process exactly at its arrival after an idle gap, and another
\* process had to wait.
C19_Witness ==
  /\ engine = "FCFS" /\ pc = "done"
  /\ \E k \in 2..Len(processes_) :
       processes_[k].st = processes_[k].at /\ processes_[k].at > processes_[k - 1].ct
  /\ \E k \in 2..Len(processes_) :
       processes_[k].st > processes_[k].at /\ processes_[k].wt > 0

\* C20: SJF is work-conserving, for every burst_time of the int range, IntMax
\* included: an iteration of the loop only advances the clock by one when no
\* unfinished process has arrival_time <= clock; when one has, the iteration
\* dispatches such a process.
C20_WorkConserving ==
  [][ (engine = "SJF" /\ pc = "start" /\ finished_count < processes_count_) =>
        IF Eligible(processes_, time_passed) = {}
        THEN slices' = slices /\ time_passed' = time_passed + 1
        ELSE /\ slices' # slices
             /\ slices'[Len(slices')].idx \in Eligible(processes_, time_passed)
    ]_vars

====
